---- MODULE Spec2Model ----
(***************************************************************************)
(* Model of the playback part of src/server/server.js: the runtime state   *)
(* (STATE, zmqSock, playTimer), the handlers POST /api/play, POST          *)
(* /api/pause and GET /api/stream-status, the setInterval callback that    *)
(* emits the frames, and cleanupStream.                                    *)
(*                                                                         *)
(* Node runs the handlers and callbacks on one event loop: a step of the   *)
(* model is the code that runs between two suspension points (await        *)
(* decode, await connect, await send).  Each accepted play request gets    *)
(* the next number r; the Publisher it creates and the interval timer it   *)
(* installs are named by the same r, since a request creates at most one   *)
(* of each.                                                                *)
(***************************************************************************)
EXTENDS Integers, Sequences, FiniteSets, TLC

\* Bounds of the model.
MaxStarts == 2      \* play requests that get past the existence check
MaxSends == 1       \* sends issued by all the timers together
NumSamples == 1000  \* samples of the first channel of an uploaded file
WideSends == 2      \* the same two, for the runs in which a send overlaps the
WideSamples == 1500 \*   next tick and a file takes two frames
MaxSeqSends == 4    \* sends issued when the lengths of SeqLengths are streamed

\* Program constants.
chunkSize == 1024
BytesPerSample == 4

Sessions == 1..MaxStarts
NoFile == "null"

\* The WAV files in UPLOAD_DIR, and the request bodies tried: the two files,
\* a fileId that is not in the directory, and a body without fileId ("").
Uploaded == {"a", "b"}
FileIds == Uploaded \cup {"missing", ""}

\* The lengths streamed when the emission loop is compared with the
\* standalone sender: empty, shorter than a chunk, around one chunk, exact
\* multiples, and the 2500 samples that make the frames 1024, 1024, 452.
SeqLengths == {0, 1, 1023, 1024, 1025, 2048, 2500, 3072}

Min(a, b) == IF a < b THEN a ELSE b

VARIABLES
  playing,      \* STATE.playing
  currentFile,  \* STATE.currentFile
  bytesSent,    \* STATE.bytesSent
  zmqSock,      \* the global zmqSock: 0 is null, r the Publisher of request r
  playTimer,    \* the global playTimer: 0 is null, r the interval of request r
  nreq,         \* play requests accepted so far
  req,          \* req[r]: where request r's handler is, and its fileId
  sock,         \* sock[r]: the Publisher created by request r
  timer,        \* timer[r]: the interval of request r and its closure (index)
  frames,       \* frames[r]: the sends issued by timer r's callback, in order
  stopped,      \* the sessions whose timer was playTimer when a pause ran
  out,          \* the messages broadcast by the last step
  response,     \* the HTTP response sent by the last step (code 0: none)
  wsSent,       \* the messages sent to an observer that connected in the last step
  fileLen,      \* fileLen[f]: the samples of the first channel of upload f
  budget,       \* the sends the timers may issue in this run of the model
  runI,         \* the standalone sender: its loop variable i
  runFrames     \* the standalone sender: the sends it issued, in order

vars == <<playing, currentFile, bytesSent, zmqSock, playTimer, nreq, req, sock,
          timer, frames, stopped, out, response, wsSent, fileLen, budget,
          runI, runFrames>>

\* wavData.channelData[0].length of the decoded file.
samplesLength(f) == fileLen[f]

NoResponse == [code |-> 0, body |-> <<>>]
Reply(c) == [code |-> c, body |-> <<>>]
StatusTrue(f) == [type |-> "status", playing |-> TRUE, currentFile |-> f]
StatusFalse == [type |-> "status", playing |-> FALSE, currentFile |-> NoFile]

\* The state after the module is loaded (lines 49-56), with uploads of L
\* samples and b sends to issue.
Boot(L, b) ==
  /\ playing = FALSE
  /\ currentFile = NoFile
  /\ bytesSent = 0
  /\ zmqSock = 0
  /\ playTimer = 0
  /\ nreq = 0
  /\ req = [r \in Sessions |-> [pc |-> "none", fileId |-> NoFile]]
  /\ sock = [r \in Sessions |-> [state |-> "none", closes |-> 0]]
  /\ timer = [r \in Sessions |->
               [live |-> FALSE, samples |-> 0, index |-> 0, pending |-> <<>>]]
  /\ frames = [r \in Sessions |-> <<>>]
  /\ stopped = {}
  /\ out = <<>>
  /\ response = NoResponse
  /\ wsSent = <<>>
  /\ fileLen = [f \in Uploaded |-> L]
  /\ budget = b
  /\ runI = 0
  /\ runFrames = <<>>

Init == Boot(NumSamples, MaxSends)

\* A step of the server in which no observer connects; the files and the
\* standalone sender are not the server's to change.
Quiet ==
  /\ wsSent' = <<>>
  /\ UNCHANGED <<fileLen, budget, runI, runFrames>>

\* A check that lets every fileId through.
fileExistsAny(f) == f \in FileIds

\* fs.existsSync(path.join(UPLOAD_DIR, fileId))
fileExists(f) == f \in Uploaded

\* cleanupStream without the clearInterval call: playTimer is nulled, the
\* interval keeps firing.
cleanupStreamNoClear(resetBytes) ==
  /\ timer' = timer
  /\ playTimer' = 0
  /\ sock' = IF zmqSock # 0
             THEN [sock EXCEPT ![zmqSock] =
                     [state |-> "closed", closes |-> @.closes + 1]]
             ELSE sock
  /\ zmqSock' = 0
  /\ bytesSent' = IF resetBytes THEN 0 ELSE bytesSent

\* cleanupStream(resetBytes): clear the interval held in playTimer, close the
\* Publisher held in zmqSock, null both, optionally reset bytesSent.
cleanupStream(resetBytes) ==
  /\ timer' = IF playTimer # 0
              THEN [timer EXCEPT ![playTimer].live = FALSE] ELSE timer
  /\ playTimer' = 0
  /\ sock' = IF zmqSock # 0
             THEN [sock EXCEPT ![zmqSock] =
                     [state |-> "closed", closes |-> @.closes + 1]]
             ELSE sock
  /\ zmqSock' = 0
  /\ bytesSent' = IF resetBytes THEN 0 ELSE bytesSent

\* POST /api/play up to its first await (lines 82-94).
Play(f) ==
  /\ Quiet
  /\ out' = <<>>
  /\ IF f = ""
     THEN /\ response' = Reply(400)
          /\ UNCHANGED <<playing, currentFile, bytesSent, zmqSock, playTimer,
                         nreq, req, sock, timer>>
     ELSE IF ~fileExists(f)
     THEN /\ response' = Reply(404)
          /\ UNCHANGED <<playing, currentFile, bytesSent, zmqSock, playTimer,
                         nreq, req, sock, timer>>
     ELSE /\ nreq < MaxStarts
          /\ cleanupStream(TRUE)
          /\ nreq' = nreq + 1
          /\ req' = [req EXCEPT ![nreq + 1] = [pc |-> "decode", fileId |-> f]]
          /\ response' = NoResponse
          /\ UNCHANGED <<playing, currentFile>>
  /\ UNCHANGED <<frames, stopped>>

\* The decode resolves: the handler creates the Publisher, stores it in zmqSock
\* and awaits connect (lines 95-100).
PlayDecoded(r) ==
  /\ Quiet
  /\ req[r].pc = "decode"
  /\ req' = [req EXCEPT ![r].pc = "connect"]
  /\ zmqSock' = r
  /\ sock' = [sock EXCEPT ![r].state = "open"]
  /\ out' = <<>>
  /\ response' = NoResponse
  /\ UNCHANGED <<playing, currentFile, bytesSent, playTimer, nreq, timer,
                 frames, stopped>>

\* The decode rejects: the catch block answers 500 (lines 126-129).
PlayDecodeFailed(r) ==
  /\ Quiet
  /\ req[r].pc = "decode"
  /\ req' = [req EXCEPT ![r] = [pc |-> "error", fileId |-> NoFile]]
  /\ out' = <<>>
  /\ response' = Reply(500)
  /\ UNCHANGED <<playing, currentFile, bytesSent, zmqSock, playTimer, nreq,
                 sock, timer, frames, stopped>>

\* The same continuation with the broadcast issued before STATE.currentFile is
\* assigned.
PlayConnectedEarlyBroadcast(r) ==
  /\ Quiet
  /\ req[r].pc = "connect"
  /\ req' = [req EXCEPT ![r] = [pc |-> "done", fileId |-> NoFile]]
  /\ playing' = TRUE
  /\ out' = <<StatusTrue(currentFile)>>
  /\ currentFile' = req[r].fileId
  /\ bytesSent' = 0
  /\ playTimer' = r
  /\ timer' = [timer EXCEPT ![r] = [live |-> TRUE,
                                    samples |-> samplesLength(req[r].fileId),
                                    index |-> 0, pending |-> <<>>]]
  /\ response' = Reply(200)
  /\ UNCHANGED <<zmqSock, nreq, sock, frames, stopped>>

\* The connect resolves: STATE is set, the status is broadcast, the interval is
\* installed in playTimer and the handler answers (lines 101-125).
PlayConnected(r) ==
  /\ Quiet
  /\ req[r].pc = "connect"
  /\ req' = [req EXCEPT ![r] = [pc |-> "done", fileId |-> NoFile]]
  /\ playing' = TRUE
  /\ currentFile' = req[r].fileId
  /\ bytesSent' = 0
  /\ out' = <<StatusTrue(req[r].fileId)>>
  /\ playTimer' = r
  /\ timer' = [timer EXCEPT ![r] = [live |-> TRUE,
                                    samples |-> samplesLength(req[r].fileId),
                                    index |-> 0, pending |-> <<>>]]
  /\ response' = Reply(200)
  /\ UNCHANGED <<zmqSock, nreq, sock, frames, stopped>>

\* The connect rejects: the catch block answers 500; zmqSock keeps the
\* Publisher (lines 126-129).
PlayConnectFailed(r) ==
  /\ Quiet
  /\ req[r].pc = "connect"
  /\ req' = [req EXCEPT ![r] = [pc |-> "error", fileId |-> NoFile]]
  /\ out' = <<>>
  /\ response' = Reply(500)
  /\ UNCHANGED <<playing, currentFile, bytesSent, zmqSock, playTimer, nreq,
                 sock, timer, frames, stopped>>

\* A slice that is not clipped to the end of the samples.
sliceLengthNoClip(index, length) == chunkSize

\* samples.subarray(index, index + chunkSize).length
sliceLength(index, length) == Min(index + chunkSize, length) - index

\* The sends issued so far by the timers of S.
RECURSIVE TotalSends(_)
TotalSends(S) ==
  IF S = {} THEN 0
  ELSE LET r == CHOOSE x \in S : TRUE
       IN Len(frames[r]) + TotalSends(S \ {r})

\* One firing of the interval callback of timer r, up to its await or return
\* (lines 111-120).  The callback reads the global zmqSock when it fires; on a
\* null zmqSock the call throws and the callback's promise rejects.
Tick(r) ==
  /\ Quiet
  /\ timer[r].live
  /\ response' = NoResponse
  /\ IF ~playing \/ timer[r].index >= timer[r].samples
     THEN /\ cleanupStream(FALSE)
          /\ out' = <<StatusFalse>>
          /\ UNCHANGED frames
     ELSE IF zmqSock = 0
     THEN /\ out' = <<>>
          /\ UNCHANGED <<bytesSent, zmqSock, playTimer, sock, timer, frames>>
     ELSE /\ TotalSends(Sessions) < budget
          /\ LET fr == [cursor |-> timer[r].index,
                        n |-> sliceLength(timer[r].index, timer[r].samples)]
             IN /\ timer' = [timer EXCEPT ![r].pending = Append(@, fr)]
                /\ frames' = [frames EXCEPT ![r] = Append(@, fr)]
          /\ out' = <<>>
          /\ UNCHANGED <<bytesSent, zmqSock, playTimer, sock>>
  /\ UNCHANGED <<playing, currentFile, nreq, req, stopped>>

Remove(s, i) == SubSeq(s, 1, i - 1) \o SubSeq(s, i + 1, Len(s))

\* An awaited send of timer r resolves: the callback resumes (lines 121-122).
SendDone(r, i) ==
  /\ Quiet
  /\ i \in 1..Len(timer[r].pending)
  /\ bytesSent' = bytesSent + timer[r].pending[i].n * BytesPerSample
  /\ timer' = [timer EXCEPT ![r].index = @ + chunkSize,
                            ![r].pending = Remove(@, i)]
  /\ out' = <<>>
  /\ response' = NoResponse
  /\ UNCHANGED <<playing, currentFile, zmqSock, playTimer, nreq, req, sock,
                 frames, stopped>>

\* An awaited send of timer r rejects: the callback's promise rejects and
\* nothing handles it (the process is taken to keep running; the interval is
\* not cleared in either case).
SendFailed(r, i) ==
  /\ Quiet
  /\ i \in 1..Len(timer[r].pending)
  /\ timer' = [timer EXCEPT ![r].pending = Remove(@, i)]
  /\ out' = <<>>
  /\ response' = NoResponse
  /\ UNCHANGED <<playing, currentFile, bytesSent, zmqSock, playTimer, nreq,
                 req, sock, frames, stopped>>

\* A pause that also forgets the file.
PauseClearsFile ==
  /\ Quiet
  /\ cleanupStream(FALSE)
  /\ playing' = FALSE
  /\ currentFile' = NoFile
  /\ out' = <<StatusFalse>>
  /\ response' = Reply(200)
  /\ stopped' = stopped \cup (IF playTimer # 0 THEN {playTimer} ELSE {})
  /\ UNCHANGED <<nreq, req, frames>>

\* POST /api/pause (lines 133-138).
Pause ==
  /\ Quiet
  /\ cleanupStream(FALSE)
  /\ playing' = FALSE
  /\ out' = <<StatusFalse>>
  /\ response' = Reply(200)
  /\ stopped' = stopped \cup (IF playTimer # 0 THEN {playTimer} ELSE {})
  /\ UNCHANGED <<currentFile, nreq, req, frames>>

\* A status handler that reports bytesSent and starts the count again.
StreamStatusResets ==
  /\ Quiet
  /\ response' = [code |-> 200,
                  body |-> <<[playing |-> playing,
                              currentFileId |-> currentFile,
                              bytesSent |-> bytesSent]>>]
  /\ out' = <<>>
  /\ bytesSent' = 0
  /\ UNCHANGED <<playing, currentFile, zmqSock, playTimer, nreq,
                 req, sock, timer, frames, stopped>>

\* GET /api/stream-status (lines 141-147).
StreamStatus ==
  /\ Quiet
  /\ response' = [code |-> 200,
                  body |-> <<[playing |-> playing,
                              currentFileId |-> currentFile,
                              bytesSent |-> bytesSent]>>]
  /\ out' = <<>>
  /\ UNCHANGED <<playing, currentFile, bytesSent, zmqSock, playTimer, nreq,
                 req, sock, timer, frames, stopped>>

\* A connection handler that sends the status as it was when the server
\* started instead of reading STATE.
ObserverConnectStale ==
  /\ wsSent' = <<[type |-> "welcome", version |-> "zmq-integration"],
                 [type |-> "status", playing |-> FALSE, currentFile |-> NoFile]>>
  /\ out' = <<>>
  /\ response' = NoResponse
  /\ UNCHANGED <<playing, currentFile, bytesSent, zmqSock, playTimer, nreq,
                 req, sock, timer, frames, stopped, fileLen, budget, runI,
                 runFrames>>

\* WebSocket connection of an observer (lines 150-153): the welcome, then the
\* status read from STATE.
ObserverConnect ==
  /\ wsSent' = <<[type |-> "welcome", version |-> "zmq-integration"],
                 [type |-> "status", playing |-> playing,
                  currentFile |-> currentFile]>>
  /\ out' = <<>>
  /\ response' = NoResponse
  /\ UNCHANGED <<playing, currentFile, bytesSent, zmqSock, playTimer, nreq,
                 req, sock, timer, frames, stopped, fileLen, budget, runI,
                 runFrames>>

Next ==
  \/ \E f \in FileIds : Play(f)
  \/ \E r \in Sessions : PlayDecoded(r)
  \/ \E r \in Sessions : PlayDecodeFailed(r)
  \/ \E r \in Sessions : PlayConnected(r)
  \/ \E r \in Sessions : PlayConnectFailed(r)
  \/ \E r \in Sessions : Tick(r)
  \/ \E r \in Sessions : \E i \in 1..budget : SendDone(r, i)
  \/ \E r \in Sessions : \E i \in 1..budget : SendFailed(r, i)
  \/ Pause
  \/ StreamStatus
  \/ ObserverConnect

Spec == Init /\ [][Next]_vars

\* The server when every send completes: SendFailed is left out, every live
\* interval keeps firing (setInterval) and every awaited send resolves.
FairNext ==
  \/ \E f \in FileIds : Play(f)
  \/ \E r \in Sessions : PlayDecoded(r)
  \/ \E r \in Sessions : PlayDecodeFailed(r)
  \/ \E r \in Sessions : PlayConnected(r)
  \/ \E r \in Sessions : PlayConnectFailed(r)
  \/ \E r \in Sessions : Tick(r)
  \/ \E r \in Sessions : \E i \in 1..budget : SendDone(r, i)
  \/ Pause
  \/ StreamStatus
  \/ ObserverConnect

FairSpec ==
  /\ Init
  /\ [][FairNext]_vars
  /\ \A r \in Sessions : WF_vars(Tick(r))
  /\ \A r \in Sessions : WF_vars(\E i \in 1..budget : SendDone(r, i))

\* The standalone sender (lines 172-198): samples of the same recording.
RunSamples == fileLen["a"]

\* samples.subarray(i, i + chunkSize).length in the standalone sender.
runSliceLength(i, length) == Min(i + chunkSize, length) - i

\* One iteration of the standalone sender's for loop (lines 189-195): the
\* send is awaited, then the 10 ms pause, then i += chunkSize.
RunSend ==
  /\ runI < RunSamples
  /\ runFrames' = Append(runFrames,
                         [cursor |-> runI,
                          n |-> runSliceLength(runI, RunSamples)])
  /\ runI' = runI + chunkSize
  /\ UNCHANGED <<playing, currentFile, bytesSent, zmqSock, playTimer, nreq, req,
                 sock, timer, frames, stopped, out, response, wsSent, fileLen,
                 budget>>

\* One session of the server that is neither paused nor replaced and whose
\* sends complete before the next tick, beside the standalone sender, for
\* every length of SeqLengths.
SeqInit == \E L \in SeqLengths : Boot(L, MaxSeqSends)

SeqNext ==
  \/ \E f \in Uploaded : nreq = 0 /\ Play(f)
  \/ \E r \in Sessions : PlayDecoded(r)
  \/ \E r \in Sessions : PlayConnected(r)
  \/ \E r \in Sessions : timer[r].pending = <<>> /\ Tick(r)
  \/ \E r \in Sessions : SendDone(r, 1)
  \/ RunSend

SeqSpec == SeqInit /\ [][SeqNext]_vars

\* The same server with room for two sends and files of two frames.
WideInit == Boot(WideSamples, WideSends)
WideSpec == WideInit /\ [][Next]_vars

(***************************************************************************)
(* Properties.                                                             *)
(***************************************************************************)

\* The timers that still fire.
LiveTimers == {r \in Sessions : timer[r].live}

\* Request r got as far as installing its interval.
Installed(r) == req[r].pc = "done"

\* C1: in every reachable state at most one emission loop (interval timer) is
\* live, whatever the interleaving of play, pause and ticks.
AtMostOneLoop == Cardinality(LiveTimers) <= 1

\* C2: every Publisher a play request opened is closed at most once, and none
\* is left open without being the one zmqSock holds (nothing can close it then).
ChannelClosedExactlyOnce ==
  \A r \in Sessions :
    /\ sock[r].closes <= 1
    /\ sock[r].state = "open" => zmqSock = r

\* C3: once a pause has run for a session (its interval was the one held in
\* playTimer), the callback of that session never again issues a send.
NoSendAfterStop ==
  [][\A r \in stopped : frames'[r] = frames[r]]_vars

\* C3, its case: a session was paused with a send in flight, and a later
\* session is playing.
StoppedWithSendInFlight ==
  \E r \in stopped :
    /\ timer[r].pending # <<>>
    /\ playing
    /\ playTimer \notin {0, r}

\* No session is active: nothing is playing and no timer or Publisher is held.
Idle == ~playing /\ playTimer = 0 /\ zmqSock = 0

\* C4: a pause that finds no active session changes nothing and broadcasts
\* nothing.
StopIdempotent ==
  [][(Pause /\ Idle) => (out' = <<>> /\ ~playing')]_vars

\* C5: the tick that finds index >= samples.length clears its timer, closes the
\* channel, leaves playing = false and broadcasts one {playing: false}.
NaturalCompletionIdle ==
  [][\A r \in Sessions :
       (Tick(r) /\ playing /\ timer[r].index >= timer[r].samples)
         => /\ ~timer'[r].live
            /\ zmqSock' = 0
            /\ ~playing'
            /\ out' = <<StatusFalse>>]_vars

\* ceil(L / chunkSize)
NumFrames(L) == (L + chunkSize - 1) \div chunkSize

\* The frames of a sequence of L samples: frame k starts at (k-1)*chunkSize and
\* has chunkSize samples, the last one what is left.
ExpectedFrames(L) ==
  [k \in 1..NumFrames(L) |->
     [cursor |-> (k - 1) * chunkSize,
      n |-> Min(chunkSize, L - (k - 1) * chunkSize)]]

IsPrefix(s, t) == Len(s) <= Len(t) /\ s = SubSeq(t, 1, Len(s))

\* Session r is the only one ever started and no pause ran while it played.
Undisturbed(r) == Installed(r) /\ nreq = 1 /\ stopped = {}

\* C6: a session that is neither stopped nor replaced hands the channel the
\* frames of its sample sequence, each once and in order: ceil(L/1024) frames
\* when it has finished, and bytesSent is 4 times the samples sent so far.
ChunkingExact ==
  \A r \in Sessions :
    Undisturbed(r) =>
      /\ IsPrefix(frames[r], ExpectedFrames(timer[r].samples))
      /\ (~timer[r].live /\ timer[r].pending = <<>>)
            => frames[r] = ExpectedFrames(timer[r].samples)
      /\ timer[r].pending = <<>>
            => bytesSent = BytesPerSample * Min(timer[r].index, timer[r].samples)

\* C7: a timer never has two sends awaited at once, and the cursors of the
\* frames it sends are strictly increasing.
FrameOrdering ==
  \A r \in Sessions :
    /\ Len(timer[r].pending) <= 1
    /\ \A j, k \in 1..Len(frames[r]) :
         j < k => frames[r][j].cursor < frames[r][k].cursor

\* A step of timer r's callback: a firing, or the continuation after a send.
CallbackStep(r) ==
  \/ Tick(r)
  \/ \E i \in 1..budget : SendDone(r, i)
  \/ \E i \in 1..budget : SendFailed(r, i)

\* C8: a step of the callback of a session that is no longer the current one
\* leaves bytesSent, playing, playTimer, zmqSock and the channels alone, sends
\* nothing and broadcasts nothing.
StaleTickNoOp ==
  [][\A r \in Sessions :
       (Installed(r) /\ playTimer # r /\ CallbackStep(r))
         => /\ UNCHANGED <<bytesSent, playing, playTimer, zmqSock, sock>>
            /\ frames'[r] = frames[r]
            /\ out' = <<>>]_vars

\* C9: a play request for a file that is not in the upload directory is
\* answered 404, changes nothing of the playback state and broadcasts nothing.
NotFoundChangesNothing ==
  [][\A f \in FileIds \ (Uploaded \cup {""}) :
       Play(f) => /\ response'.code = 404
                  /\ out' = <<>>
                  /\ UNCHANGED <<playing, currentFile, bytesSent, zmqSock,
                                 playTimer, nreq, req, sock, timer, frames>>]_vars

\* C9, its case: the 404 was answered while a session was playing and had
\* sent bytes.
NotFoundWhilePlaying ==
  /\ response.code = 404
  /\ playing
  /\ playTimer # 0
  /\ bytesSent > 0

\* C10: a send of the current session that fails ends the session: its timer
\* is cleared, the channel closed, playing is false and {playing: false} is
\* broadcast.
SendFailureTerminates ==
  [][\A r \in Sessions : \A i \in 1..budget :
       (SendFailed(r, i) /\ playTimer = r /\ playing)
         => /\ ~timer'[r].live
            /\ zmqSock' = 0
            /\ ~playing'
            /\ out' = <<StatusFalse>>]_vars

\* C11: a start that fails (decode or connect rejects) leaves the session that
\* was active alone: if every start after session q failed, and q was neither
\* paused nor at its end, q's emission loop is still live.
FailedStartKeepsSession ==
  \A q \in Sessions :
    ( /\ Installed(q)
      /\ q \notin stopped
      /\ playing
      /\ timer[q].index < timer[q].samples
      /\ \A r \in Sessions : r > q => req[r].pc \in {"none", "error"}
      /\ \E r \in Sessions : r > q /\ req[r].pc = "error" )
    => timer[q].live

\* C12: an observer that connects is sent the welcome and then the status with
\* the values playing and currentFile have at that instant; while a session's
\* timer is the current one these are true and the file that session started
\* with (they are set in the step that installs the timer and do not change
\* while it stays the current one).
SnapshotIsCurrent ==
  [][ /\ ObserverConnect =>
           /\ Len(wsSent') = 2
           /\ wsSent'[1].type = "welcome"
           /\ wsSent'[2] = [type |-> "status", playing |-> playing,
                            currentFile |-> currentFile]
           /\ playTimer # 0 => wsSent'[2].playing
      /\ \A r \in Sessions :
           PlayConnected(r) =>
             playTimer' = r /\ playing' /\ currentFile' = req[r].fileId
      /\ (playTimer # 0 /\ playTimer' = playTimer) =>
             (playing' = playing /\ currentFile' = currentFile) ]_vars

\* C12, its case: an observer connected while the second session was playing
\* and had sent bytes.
ObserverDuringPlayback ==
  /\ Len(wsSent) = 2
  /\ wsSent[2].playing
  /\ playTimer = 2
  /\ timer[2].live
  /\ bytesSent > 0

\* C13: the status handler answers in every state with the current playing,
\* currentFile and bytesSent, changes none of them nor the timer or the
\* channel, and broadcasts nothing.
StatusPureRead ==
  /\ [](ENABLED StreamStatus)
  /\ [][StreamStatus =>
          /\ response' = [code |-> 200,
                          body |-> <<[playing |-> playing,
                                      currentFileId |-> currentFile,
                                      bytesSent |-> bytesSent]>>]
          /\ out' = <<>>
          /\ wsSent' = <<>>
          /\ UNCHANGED <<playing, currentFile, bytesSent, zmqSock, playTimer,
                         nreq, req, sock, timer, frames>>]_vars

\* C13, its case: the status was read while a play request was suspended in
\* decode or connect and a tick was suspended in its send.
StatusWhileSuspended ==
  /\ response.body # <<>>
  /\ \E r \in Sessions : req[r].pc \in {"decode", "connect"}
  /\ \E q \in Sessions : timer[q].pending # <<>>

\* C14: bytesSent counts the bytes of the completed sends of the current
\* session only: it is 0 when a session starts playing, a completed send of
\* the current session adds its bytes, and while another session is the
\* current one a completed send of an earlier session leaves it alone.
BytesSentCurrentOnly ==
  [][ /\ \A r \in Sessions : PlayConnected(r) => bytesSent' = 0
      /\ \A r \in Sessions : \A i \in 1..budget :
           SendDone(r, i) =>
             /\ playTimer = r =>
                  bytesSent' = bytesSent + timer[r].pending[i].n * BytesPerSample
             /\ playTimer \notin {0, r} => bytesSent' = bytesSent ]_vars

\* The cursors of the frames timer r sent are strictly increasing.
NoFrameTwice(r) ==
  \A j, k \in 1..Len(frames[r]) :
    j < k => frames[r][j].cursor < frames[r][k].cursor

\* C15: the cursor never exceeds samples.length, also after the final, shorter
\* frame (stated for the timers that sent no frame twice).
CursorWithinSamples ==
  \A r \in Sessions :
    NoFrameTwice(r) => timer[r].index <= timer[r].samples

\* C16: the step that accepts a start broadcasts exactly one {status, playing:
\* true, currentFile: fileId}, with playing true, currentFile the fileId,
\* bytesSent 0 and the interval for that file installed; no other step
\* broadcasts playing: true.
StartBroadcastsOnce ==
  [][ /\ \A r \in Sessions :
           PlayConnected(r) =>
             /\ out' = <<[type |-> "status", playing |-> TRUE,
                          currentFile |-> req[r].fileId]>>
             /\ response'.code = 200
             /\ playing'
             /\ currentFile' = req[r].fileId
             /\ bytesSent' = 0
             /\ playTimer' = r
             /\ timer'[r] = [live |-> TRUE, samples |-> fileLen[req[r].fileId],
                             index |-> 0, pending |-> <<>>]
      /\ (\E k \in 1..Len(out') : out'[k].playing)
           => \E r \in Sessions : PlayConnected(r) ]_vars

\* C16, its case: the second start, of file b, was accepted after the first
\* had played file a.
SecondStartAccepted ==
  /\ out = <<StatusTrue("b")>>
  /\ currentFile = "b"
  /\ playTimer = 2
  /\ frames[1] # <<>>

\* C17: whenever an interval timer is live, zmqSock holds an open Publisher.
TimerHasOpenChannel ==
  \A r \in Sessions :
    timer[r].live => (zmqSock # 0 /\ sock[zmqSock].state = "open")

\* C18: when every send completes and live timers keep firing, every interval
\* timer that is live is eventually cleared (or the sends of the model run out).
TimersEventuallyCleared ==
  \A r \in Sessions :
    timer[r].live ~> (~timer[r].live \/ TotalSends(Sessions) >= budget)

\* C19: currentFile changes only in the step that accepts a start, to that
\* start's fileId; a pause, a tick, a completed or failed send, a status read
\* and a failed start leave it as it is.
CurrentFileOnlyByStart ==
  [][currentFile' # currentFile =>
       \E r \in Sessions : PlayConnected(r) /\ currentFile' = req[r].fileId]_vars

\* C19, its case: after a pause of a playing session, the status still reports
\* the file that was started.
StatusAfterStopKeepsFile ==
  /\ response.body # <<>>
  /\ response.body[1].currentFileId = "a"
  /\ ~response.body[1].playing
  /\ stopped # {}

\* The loop of session r has ended.
LoopEnded(r) == Installed(r) /\ ~timer[r].live

\* C20: a session that is neither paused nor replaced and whose sends complete
\* before the next tick hands the channel the frames the standalone sender
\* sends: at every moment one sequence is a prefix of the other, and once both
\* have ended the two are equal.
SameFramesAsRun ==
  \A r \in Sessions :
    /\ IsPrefix(frames[r], runFrames) \/ IsPrefix(runFrames, frames[r])
    /\ (LoopEnded(r) /\ runI >= RunSamples) => frames[r] = runFrames

\* C20, its case: both have streamed the 2500 samples, in three frames, the
\* last of 452 samples.
BothStreamed2500 ==
  /\ LoopEnded(1)
  /\ runI >= RunSamples
  /\ RunSamples = 2500
  /\ Len(frames[1]) = 3
  /\ frames[1][3] = [cursor |-> 2048, n |-> 452]

====
